---- MODULE Spec2Model ----
(***************************************************************************)
(* A model of minitorch's Module / Parameter component tree (module.py)    *)
(* and of the guarded scalar primitives and zipWith (operators.py).        *)
(*                                                                         *)
(* The specifications share the variables and the initial state:           *)
(*   Spec        registration by both paths, and the enumeration           *)
(*   SpecAssign  generic attribute assignment only                         *)
(*   SpecDots    as Spec, with a key that holds the separator              *)
(*   SpecMode    child registration, train() and eval()                    *)
(*   SpecLookup  attribute lookup and the call syntax                      *)
(*   SpecParam   Parameter construction and update over value objects      *)
(*   SpecOps     the pure primitives, applied to inputs from bounded sets  *)
(***************************************************************************)
EXTENDS Integers, Sequences, FiniteSets, TLC

VARIABLES
    _parameters,  \* [ModId -> insertion-ordered dict: Seq of [k, v]], v a Parameter id
    _modules,     \* [ModId -> insertion-ordered dict: Seq of [k, v]], v a Module id
    fields,       \* [ModId -> insertion-ordered dict of the ordinary instance fields]
    heap,         \* the Parameter objects constructed so far: Seq of [value, name]
    vobj,         \* [ValId -> the state of a value object]
    last,         \* the operation that acted last on the tree or on a Parameter
    opcall,       \* the primitive applied last, with its arguments after the call
    opret         \* and its outcome

vars == <<_parameters, _modules, fields, heap, vobj, last, opcall, opret>>

(***************************************************************************)
(* Bounds of the model.                                                    *)
(***************************************************************************)
MaxNum == 2        \* numerators of the scalar inputs range over -MaxNum..MaxNum
MaxLen == 3        \* longest input list of zipWith

(***************************************************************************)
(* operators.py: numbers.  A Python number is modelled as an exact         *)
(* rational <<n, d>> with d > 0 in lowest terms.                           *)
(***************************************************************************)
Abs(n) == IF n < 0 THEN -n ELSE n

RECURSIVE Gcd(_, _)
Gcd(a, b) == IF b = 0 THEN a ELSE Gcd(b, a % b)

Norm(n, d) ==
    LET s == IF d < 0 THEN -1 ELSE 1
        g == Gcd(Abs(n), Abs(d))
    IN  <<(s * n) \div g, (s * d) \div g>>

Num(n) == <<n, 1>>
IsZero(x) == x[1] = 0
IsPos(x) == x[1] > 0
RMul(x, y) == Norm(x[1] * y[1], x[2] * y[2])
\* 1 / x and -1 / x, for x # 0
RDiv1(x) == Norm(x[2], x[1])
RNegDiv1(x) == Norm(-x[2], x[1])

Returned(v) == [status |-> "return", num |-> v, list |-> <<>>]
Raised(e) == [status |-> "raise", num |-> Num(0), list |-> <<e>>]
ReturnedList(l) == [status |-> "return", num |-> Num(0), list |-> l]

add(x, y) == x + y
mul(x, y) == x * y
max(x, y) == IF x >= y THEN x ELSE y

inv(x) == IF IsZero(x) THEN Raised("ValueError") ELSE Returned(RDiv1(x))

log_back_eq(x, upstream_grad) ==
    IF IsZero(x) THEN Raised("ValueError") ELSE Returned(RMul(upstream_grad, RDiv1(x)))
log_back(x, upstream_grad) ==
    IF ~IsPos(x) THEN Raised("ValueError") ELSE Returned(RMul(upstream_grad, RDiv1(x)))

inv_back(x, upstream_grad) ==
    IF IsZero(x) THEN Raised("ValueError")
    ELSE Returned(RMul(upstream_grad, RNegDiv1(RMul(x, x))))

relu_back(x, upstream_grad) ==
    IF IsPos(x) THEN Returned(upstream_grad) ELSE Returned(Num(0))

(***************************************************************************)
(* operators.py: zipWith.  zip pairs the two iterables until either is     *)
(* exhausted; the comprehension builds a new list from the pairs.          *)
(***************************************************************************)
RECURSIVE zip_longest(_, _)
zip_longest(list1, list2) ==
    IF list1 = <<>> /\ list2 = <<>> THEN <<>>
    ELSE LET x == IF list1 = <<>> THEN 0 ELSE Head(list1)
             y == IF list2 = <<>> THEN 0 ELSE Head(list2)
             t1 == IF list1 = <<>> THEN <<>> ELSE Tail(list1)
             t2 == IF list2 = <<>> THEN <<>> ELSE Tail(list2)
         IN  <<<<x, y>>>> \o zip_longest(t1, t2)

RECURSIVE zip(_, _)
zip(list1, list2) ==
    IF list1 = <<>> \/ list2 = <<>> THEN <<>>
    ELSE <<<<Head(list1), Head(list2)>>>> \o zip(Tail(list1), Tail(list2))

Apply2(func, x, y) ==
    CASE func = "add" -> add(x, y)
      [] func = "mul" -> mul(x, y)
      [] func = "max" -> max(x, y)

zipWith(func, list1, list2) ==
    LET pairs == zip(list1, list2)
    IN  [i \in 1..Len(pairs) |-> Apply2(func, pairs[i][1], pairs[i][2])]

addLists(l1, l2) == zipWith("add", l1, l2)

(***************************************************************************)
(* Python values.  A string is the sequence of its characters, an          *)
(* Optional[str] is <<>> (None) or <<s>>, and a dict is the sequence of    *)
(* its items in insertion order.                                           *)
(***************************************************************************)
K_a == <<"a">>
K_w == <<"w">>
K_a_w == <<"a", ".", "w">>
K_empty == <<>>
K_forward == <<"f", "o", "r", "w", "a", "r", "d">>
K_train == <<"t", "r", "a", "i", "n">>
K_training == <<"t", "r", "a", "i", "n", "i", "n", "g">>

None == <<>>
Some(s) == <<s>>
\* the truth value of an Optional[str]: None and "" are false
Truthy(name) == name # None /\ name[1] # <<>>

PyTrue == "True"
PyFalse == "False"

DictHas(d, k) == \E i \in 1..Len(d) : d[i].k = k
DictGet(d, k) == d[CHOOSE i \in 1..Len(d) : d[i].k = k].v
\* d[k] = v: an existing key keeps its position, a new key goes last
DictSet(d, k, v) ==
    IF DictHas(d, k)
    THEN [i \in 1..Len(d) |-> IF d[i].k = k THEN [k |-> k, v |-> v] ELSE d[i]]
    ELSE Append(d, [k |-> k, v |-> v])
DictKeys(d) == [i \in 1..Len(d) |-> d[i].k]

(***************************************************************************)
(* module.py: Parameter.  A value is either plain or an object exposing    *)
(* requires_grad_ and a name field (the external autograd value type).     *)
(***************************************************************************)
PlainVals == {"5"}
GradVals == {"s1", "s2"}
Vals == PlainVals \cup GradVals

hasattr_requires_grad_(x) == x \in GradVals

\* lines 145-148 and 153-156: requires_grad_(True), then the name if truthy
Propagate(vo, x, name) ==
    IF hasattr_requires_grad_(x)
    THEN [vo EXCEPT ![x] = [requires_grad |-> TRUE,
                            name |-> IF Truthy(name) THEN name ELSE @.name]]
    ELSE vo

\* Parameter(x, name): the new object is the last of the heap
Parameter__init__(st, x, name) ==
    [st EXCEPT !.heap = Append(@, [value |-> x, name |-> name]),
               !.vobj = Propagate(@, x, name)]

\* p.update(x)
update(st, p, x) ==
    [st EXCEPT !.heap[p].value = x,
               !.vobj = Propagate(@, x, st.heap[p].name)]

(***************************************************************************)
(* module.py: Module.  The objects are the Module ids in Mods; the types   *)
(* of the ids in ForwardTypes supply forward, the others are bare.         *)
(***************************************************************************)
MaxEntries == 3    \* items over all the dicts of all the Modules (training aside)
MaxParams == 2     \* Parameter objects constructed

Mods == {1, 2, 3}
ForwardTypes == {3}

\* the program's state as one value, for the operations to transform
State ==
    [_parameters |-> _parameters, _modules |-> _modules, fields |-> fields,
     heap |-> heap, vobj |-> vobj]

\* a value handed to __setattr__: a Parameter, a Module or an ordinary value
AsParameter(p) == [kind |-> "Parameter", id |-> p, val |-> ""]
AsModule(c) == [kind |-> "Module", id |-> c, val |-> ""]
AsPlain(v) == [kind |-> "plain", id |-> 0, val |-> v]

__setattr__(st, m, key, val) ==
    IF val.kind = "Parameter"
    THEN [st EXCEPT !._parameters[m] = DictSet(@, key, val.id)]
    ELSE IF val.kind = "Module"
    THEN [st EXCEPT !._modules[m] = DictSet(@, key, val.id)]
    ELSE [st EXCEPT !.fields[m] = DictSet(@, key, val.val)]

\* Module(): empty dicts, and training = True as the first ordinary field
Module__init__ == <<[k |-> K_training, v |-> PyTrue]>>

modules(st, m) == [i \in 1..Len(st._modules[m]) |-> st._modules[m][i].v]

RECURSIVE _set_mode_children(_, _, _, _)
RECURSIVE _set_mode_recursive(_, _, _)

\* the loop over self.modules(), from the i-th child on
_set_mode_children(st, cs, i, mode) ==
    IF i > Len(cs) THEN st
    ELSE _set_mode_children(_set_mode_recursive(st, cs[i], mode), cs, i + 1, mode)

\* a mode switch that stops at the Module itself
_set_mode_shallow(st, m, mode) == __setattr__(st, m, K_training, AsPlain(mode))

\* self.training = mode goes through __setattr__, then the children in order
_set_mode_recursive(st, m, mode) ==
    _set_mode_children(__setattr__(st, m, K_training, AsPlain(mode)),
                       modules(st, m), 1, mode)

train(st, m) == _set_mode_recursive(st, m, PyTrue)
eval(st, m) == _set_mode_recursive(st, m, PyFalse)

RECURSIVE _named_parameters(_, _, _)
RECURSIVE _named_children(_, _, _, _)

\* the second loop of the generator, from the i-th child on
_named_children(st, module, prefix, i) ==
    IF i > Len(st._modules[module]) THEN <<>>
    ELSE LET c == st._modules[module][i]
         IN  _named_parameters(st, c.v, prefix \o c.k \o <<".">>)
             \o _named_children(st, module, prefix, i + 1)

\* the generator with the prefix left out of the names
_named_parameters_no_prefix(st, module, prefix) ==
    [i \in 1..Len(st._parameters[module]) |->
        [name |-> st._parameters[module][i].k,
         param |-> st._parameters[module][i].v]]
    \o _named_children(st, module, prefix, 1)

\* the generator with the children yielded before the own parameters
_named_parameters_children_first(st, module, prefix) ==
    _named_children(st, module, prefix, 1)
    \o [i \in 1..Len(st._parameters[module]) |->
        [name |-> prefix \o st._parameters[module][i].k,
         param |-> st._parameters[module][i].v]]

_named_parameters(st, module, prefix) ==
    [i \in 1..Len(st._parameters[module]) |->
        [name |-> prefix \o st._parameters[module][i].k,
         param |-> st._parameters[module][i].v]]
    \o _named_children(st, module, prefix, 1)

named_parameters(st, m) == _named_parameters(st, m, <<>>)

parameters(st, m) ==
    LET np == named_parameters(st, m) IN [i \in 1..Len(np) |-> np[i].param]

\* add_parameter without the name handed to the Parameter
add_parameter_unnamed(st, m, k, v) ==
    LET s1 == Parameter__init__(st, v, None)
    IN  [s1 EXCEPT !._parameters[m] = DictSet(@, k, Len(s1.heap))]

add_parameter(st, m, k, v) ==
    LET s1 == Parameter__init__(st, v, Some(k))
    IN  [s1 EXCEPT !._parameters[m] = DictSet(@, k, Len(s1.heap))]

add_module(st, m, name, module) ==
    [st EXCEPT !._modules[m] = DictSet(@, name, module)]

\* what an attribute read gives
GotParameter(p) == [kind |-> "Parameter", id |-> p, val |-> ""]
GotModule(c) == [kind |-> "Module", id |-> c, val |-> ""]
GotNone == [kind |-> "None", id |-> 0, val |-> ""]
GotField(v) == [kind |-> "field", id |-> 0, val |-> v]
GotMethod(m) == [kind |-> "method", id |-> m, val |-> ""]

\* the lookup with the two dicts tried in the other order
__getattr__modules_first(st, m, key) ==
    IF DictHas(st._modules[m], key) THEN GotModule(DictGet(st._modules[m], key))
    ELSE IF DictHas(st._parameters[m], key)
    THEN GotParameter(DictGet(st._parameters[m], key))
    ELSE GotNone

__getattr__(st, m, key) ==
    IF DictHas(st._parameters[m], key) THEN GotParameter(DictGet(st._parameters[m], key))
    ELSE IF DictHas(st._modules[m], key) THEN GotModule(DictGet(st._modules[m], key))
    ELSE GotNone

\* the names class Module defines (of those the model draws keys from), and
\* forward where the type supplies it
ClassAttrs(m) == {K_train} \cup (IF m \in ForwardTypes THEN {K_forward} ELSE {})

\* the expression m.key: the instance's ordinary fields, then the class, and
\* __getattr__ only when both miss
GetAttr(st, m, key) ==
    IF DictHas(st.fields[m], key) THEN GotField(DictGet(st.fields[m], key))
    ELSE IF key \in ClassAttrs(m) THEN GotMethod(m)
    ELSE __getattr__(st, m, key)

\* outcomes of a call
CallReturned(by, args) == [status |-> "return", by |-> by, args |-> args, exc |-> ""]
CallRaised(e) == [status |-> "raise", by |-> 0, args |-> "", exc |-> e]

RECURSIVE __call__(_, _, _)
\* self.forward(*args): the attribute is read, then called.  A bound forward
\* returns; a Module is called in turn; None, a Parameter and an ordinary
\* (data) value are not callable
__call__(st, m, args) ==
    LET f == GetAttr(st, m, K_forward)
    IN  CASE f.kind = "method" -> CallReturned(m, args)
          [] f.kind = "Module" -> __call__(st, f.id, args)
          [] OTHER -> CallRaised("TypeError")

(***************************************************************************)
(* The shape of the Module graph.  The code never checks it: the caller    *)
(* must keep the graph acyclic, so the actions register a child only where *)
(* that holds.                                                             *)
(***************************************************************************)
Children(st, m) == {st._modules[m][i].v : i \in 1..Len(st._modules[m])}

RECURSIVE ReachN(_, _, _)
ReachN(st, S, n) ==
    IF n = 0 THEN S ELSE ReachN(st, S \cup UNION {Children(st, x) : x \in S}, n - 1)

Descendants(st, m) == ReachN(st, Children(st, m), Cardinality(Mods))
Acyclic(st) == \A m \in Mods : m \notin Descendants(st, m)

\* a Module is owned by one parent, under one name
Owners(st, c) ==
    {<<m, i>> \in Mods \X (1..MaxEntries) : i <= Len(st._modules[m]) /\ st._modules[m][i].v = c}
IsTree(st) == Acyclic(st) /\ \A c \in Mods : Cardinality(Owners(st, c)) <= 1

RECURSIVE SumLen(_, _)
SumLen(f, S) ==
    IF S = {} THEN 0
    ELSE LET m == CHOOSE x \in S : TRUE IN Len(f[m]) + SumLen(f, S \ {m})

Entries(st) ==
    SumLen(st._parameters, Mods) + SumLen(st._modules, Mods)
    + SumLen(st.fields, Mods) - Cardinality(Mods)

InBounds(st) == Entries(st) <= MaxEntries /\ Len(st.heap) <= MaxParams

Commit(st) ==
    /\ _parameters' = st._parameters
    /\ _modules' = st._modules
    /\ fields' = st.fields
    /\ heap' = st.heap
    /\ vobj' = st.vobj

\* the operation, the object it acted on, and (for update) the name before it
Did(op, id) == [op |-> op, id |-> id, was |-> None]

\* a call of a primitive: its arguments as passed (x, g; func, a, b) and the two
\* lists as they are after the call (l1, l2)
NoCall ==
    [fn |-> "none", x |-> Num(0), g |-> Num(0), func |-> "",
     a |-> <<>>, b |-> <<>>, l1 |-> <<>>, l2 |-> <<>>]

Init ==
    /\ _parameters = [m \in Mods |-> <<>>]
    /\ _modules = [m \in Mods |-> <<>>]
    /\ fields = [m \in Mods |-> Module__init__]
    /\ heap = <<>>
    /\ vobj = [x \in GradVals |-> [requires_grad |-> FALSE, name |-> None]]
    /\ last = Did("init", 0)
    /\ opcall = NoCall
    /\ opret = Returned(Num(0))

(***************************************************************************)
(* Actions on the tree.  K is the set the keys are drawn from, V the set   *)
(* of values.                                                              *)
(***************************************************************************)
AddParameter(K, V) ==
    \E m \in Mods, k \in K, v \in V :
        LET st == add_parameter(State, m, k, v)
        IN  /\ InBounds(st)
            /\ Commit(st)
            /\ last' = Did("register", 0)
            /\ UNCHANGED <<opcall, opret>>

AddModule(K) ==
    \E m \in Mods, k \in K, c \in Mods :
        LET st == add_module(State, m, k, c)
        IN  /\ InBounds(st) /\ IsTree(st)
            /\ Commit(st)
            /\ last' = Did("register", 0)
            /\ UNCHANGED <<opcall, opret>>

\* Parameter(x) or Parameter(x, name), not yet registered anywhere
NewParameter(K, V) ==
    \E x \in V, name \in {None} \cup {Some(k) : k \in K} :
        LET st == Parameter__init__(State, x, name)
        IN  /\ InBounds(st)
            /\ Commit(st)
            /\ last' = Did("Parameter", Len(st.heap))
            /\ UNCHANGED <<opcall, opret>>

UpdateParameter(V) ==
    \E p \in 1..Len(heap), x \in V :
        /\ Commit(update(State, p, x))
        /\ last' = [op |-> "update", id |-> p, was |-> heap[p].name]
        /\ UNCHANGED <<opcall, opret>>

\* m.k = Parameter(x) or m.k = Parameter(x, k)
SetAttrParameter(K, V) ==
    \E m \in Mods, k \in K, x \in V, named \in BOOLEAN :
        LET s1 == Parameter__init__(State, x, IF named THEN Some(k) ELSE None)
            st == __setattr__(s1, m, k, AsParameter(Len(s1.heap)))
        IN  /\ InBounds(st)
            /\ Commit(st)
            /\ last' = Did("register", 0)
            /\ UNCHANGED <<opcall, opret>>

SetAttrModule(K) ==
    \E m \in Mods, k \in K, c \in Mods :
        LET st == __setattr__(State, m, k, AsModule(c))
        IN  /\ InBounds(st) /\ IsTree(st)
            /\ Commit(st)
            /\ last' = Did("register", 0)
            /\ UNCHANGED <<opcall, opret>>

SetAttrPlain(K, PV) ==
    \E m \in Mods, k \in K, v \in PV :
        LET st == __setattr__(State, m, k, AsPlain(v))
        IN  /\ InBounds(st)
            /\ Commit(st)
            /\ last' = Did("register", 0)
            /\ UNCHANGED <<opcall, opret>>

Train ==
    \E m \in Mods :
        /\ Commit(train(State, m))
        /\ last' = Did("train", m)
        /\ UNCHANGED <<opcall, opret>>

Eval ==
    \E m \in Mods :
        /\ Commit(eval(State, m))
        /\ last' = Did("eval", m)
        /\ UNCHANGED <<opcall, opret>>

(***************************************************************************)
(* Spec: registration by add_parameter / add_module and by assignment.     *)
(***************************************************************************)
TreeKeys == {K_a, K_w}
TreeVals == {"5"}

Next ==
    \/ AddParameter(TreeKeys, TreeVals)
    \/ AddModule(TreeKeys)
    \/ SetAttrParameter(TreeKeys, TreeVals)
    \/ SetAttrModule(TreeKeys)

Spec == Init /\ [][Next]_vars

\* SpecAssign: generic attribute assignment only
AssignNext ==
    \/ SetAttrParameter(TreeKeys, TreeVals)
    \/ SetAttrModule(TreeKeys)
    \/ SetAttrPlain(TreeKeys, {"5"})

SpecAssign == Init /\ [][AssignNext]_vars

(***************************************************************************)
(* The depth-first pre-order enumeration, stated over the tree rather than *)
(* computed by the generator.  A slot <<p, i>> is the i-th parameter of    *)
(* the Module reached from the root by the child positions p.              *)
(***************************************************************************)
RECURSIVE PathsFrom(_, _, _)
PathsFrom(st, m, n) ==
    {<<>>} \cup
    (IF n = 0 THEN {}
     ELSE UNION {{<<i>> \o q : q \in PathsFrom(st, st._modules[m][i].v, n - 1)} :
                 i \in 1..Len(st._modules[m])})

RECURSIVE NodeAt(_, _, _)
NodeAt(st, m, p) ==
    IF p = <<>> THEN m ELSE NodeAt(st, st._modules[m][Head(p)].v, Tail(p))

RECURSIVE PrefixAt(_, _, _)
PrefixAt(st, m, p) ==
    IF p = <<>> THEN <<>>
    ELSE LET c == st._modules[m][Head(p)]
         IN  c.k \o <<".">> \o PrefixAt(st, c.v, Tail(p))

Slots(st, m) ==
    UNION {{<<p, i>> : i \in 1..Len(st._parameters[NodeAt(st, m, p)])} :
           p \in PathsFrom(st, m, Cardinality(Mods))}

IsPrefix(p, q) == Len(p) <= Len(q) /\ \A i \in 1..Len(p) : p[i] = q[i]

\* s comes before t in pre-order: own parameters in order, a Module's parameters
\* before those of its descendants, an earlier child's subtree before a later one's
Before(s, t) ==
    LET p == s[1]
        q == t[1]
    IN  IF p = q THEN s[2] < t[2]
        ELSE IF IsPrefix(p, q) THEN TRUE
        ELSE IF IsPrefix(q, p) THEN FALSE
        ELSE LET d == CHOOSE i \in 1..Len(p) :
                          p[i] # q[i] /\ \A j \in 1..(i - 1) : p[j] = q[j]
             IN  p[d] < q[d]

Rank(st, m, s) == 1 + Cardinality({t \in Slots(st, m) : Before(t, s)})

SlotEntry(st, m, s) ==
    LET e == st._parameters[NodeAt(st, m, s[1])][s[2]]
    IN  [name |-> PrefixAt(st, m, s[1]) \o e.k, param |-> e.v]

C4_KeyInOneMapping ==
    \A m \in Mods : \A k \in TreeKeys :
        ~(DictHas(_parameters[m], k) /\ DictHas(_modules[m], k))

\* the two registration paths from the current state, for Module m, key k, value v
ByAddParameter(m, k, v) == add_parameter(State, m, k, v)
ByAssignment(m, k, v, name) ==
    LET s1 == Parameter__init__(State, v, name)
    IN  __setattr__(s1, m, k, AsParameter(Len(s1.heap)))

EntryOf(st, m, k) == st.heap[DictGet(st._parameters[m], k)]
NamesOf(st, r) ==
    LET np == named_parameters(st, r) IN [i \in 1..Len(np) |-> np[i].name]
ValuesOf(st, r) ==
    LET np == named_parameters(st, r) IN [i \in 1..Len(np) |-> st.heap[np[i].param].value]

SamePlaceAndValue(A, B, m, k, v) ==
    /\ DictKeys(A._parameters[m]) = DictKeys(B._parameters[m])
    /\ EntryOf(A, m, k).value = v
    /\ EntryOf(B, m, k).value = v
    /\ \A r \in Mods : NamesOf(A, r) = NamesOf(B, r) /\ ValuesOf(A, r) = ValuesOf(B, r)

\* C5 as stated: add_parameter(k, v) and the assignment of Parameter(v) to k give
\* identical entries: same key, position, value and name label
C5_PathsIdentical ==
    \A m \in Mods, k \in TreeKeys, v \in Vals :
        LET A == ByAddParameter(m, k, v)
            B == ByAssignment(m, k, v, None)
        IN  SamePlaceAndValue(A, B, m, k, v) /\ EntryOf(A, m, k) = EntryOf(B, m, k)

\* C5 as amended: the two paths give entries under the same key at the same
\* position wrapping the same value, enumerated alike by named_parameters();
\* the name label is k by add_parameter and the one the assigned Parameter was
\* built with by assignment (None for Parameter(v)); assigning Parameter(v, k)
\* gives the state add_parameter(k, v) gives
C5_PathsAgreeButForName ==
    \A m \in Mods, k \in TreeKeys, v \in Vals :
        LET A == ByAddParameter(m, k, v)
            B == ByAssignment(m, k, v, None)
        IN  /\ SamePlaceAndValue(A, B, m, k, v)
            /\ EntryOf(A, m, k).name = Some(k)
            /\ EntryOf(B, m, k).name = None
            /\ A = ByAssignment(m, k, v, Some(k))

\* both paths have acted on the same key of two Modules, with the same value
C5_Witness ==
    \E m1, m2 \in Mods : \E k \in TreeKeys :
        /\ m1 # m2
        /\ DictHas(_parameters[m1], k) /\ DictHas(_parameters[m2], k)
        /\ EntryOf(State, m1, k).name = Some(k)
        /\ EntryOf(State, m2, k).name = None
        /\ EntryOf(State, m1, k).value = EntryOf(State, m2, k).value

(***************************************************************************)
(* SpecDots: as Spec, over keys of which one holds the separator.          *)
(***************************************************************************)
K_a_a == <<"a", ".", "a">>
DotKeys == {K_a, K_a_a}

DotsNext ==
    \/ AddParameter(DotKeys, TreeVals)
    \/ AddModule(DotKeys)
    \/ SetAttrParameter(DotKeys, TreeVals)
    \/ SetAttrModule(DotKeys)

SpecDots == Init /\ [][DotsNext]_vars

HasDot(k) == \E i \in 1..Len(k) : k[i] = "."
DictKeySet(d) == {d[i].k : i \in 1..Len(d)}
SegmentKeys(st, m) ==
    UNION {DictKeySet(st._parameters[n]) \cup DictKeySet(st._modules[n]) :
           n \in {m} \cup Descendants(st, m)}
Distinct(seq) == \A i, j \in 1..Len(seq) : i # j => seq[i] # seq[j]

\* C8: in a tree whose parameter and child names hold no ".", the qualified
\* names named_parameters() returns are pairwise distinct
C8_QualifiedNamesDistinct ==
    \A m \in Mods :
        (\A k \in SegmentKeys(State, m) : ~HasDot(k)) => Distinct(NamesOf(State, m))

\* a key registered both as a parameter and as a child, the child holding a
\* parameter of the same name, no name holding a "."
C8_Witness ==
    \E m \in Mods :
        /\ \A k \in SegmentKeys(State, m) : ~HasDot(k)
        /\ DictHas(_parameters[m], K_a) /\ DictHas(_modules[m], K_a)
        /\ DictHas(_parameters[DictGet(_modules[m], K_a)], K_a)
        /\ Len(named_parameters(State, m)) >= 2

(***************************************************************************)
(* SpecMode: child registration and the mode switches.                     *)
(***************************************************************************)
ModeNext ==
    \/ AddModule(TreeKeys)
    \/ SetAttrModule(TreeKeys)
    \/ Train
    \/ Eval

SpecMode == Init /\ [][ModeNext]_vars

training(m) == DictGet(fields[m], K_training)

\* C2: when M.train() returns, training is True on M and on every descendant;
\* when M.eval() returns, it is False on all of them
C2_ModeReachesAllDescendants ==
    /\ last.op = "train" =>
         \A d \in {last.id} \cup Descendants(State, last.id) : training(d) = PyTrue
    /\ last.op = "eval" =>
         \A d \in {last.id} \cup Descendants(State, last.id) : training(d) = PyFalse

\* eval() has returned on the root of a three-level tree
C2_Witness ==
    /\ last.op = "eval"
    /\ \E c \in Children(State, last.id) : Children(State, c) # {}
    /\ \A d \in {last.id} \cup Descendants(State, last.id) : training(d) = PyFalse

(***************************************************************************)
(* SpecLookup: registration and ordinary assignment under the names of a   *)
(* method (train), of a field (training) and of forward.                   *)
(***************************************************************************)
LookupKeys == {K_forward, K_train, K_training}
\* the keys written to; train is read only
AssignedKeys == {K_forward, K_training}

LookupNext ==
    \/ AddParameter(AssignedKeys, TreeVals)
    \/ AddModule(AssignedKeys)
    \/ SetAttrPlain(AssignedKeys, {"5"})

SpecLookup == Init /\ [][LookupNext]_vars

\* what the two mappings alone give for key k of Module m
Registered(m, k) ==
    IF DictHas(_parameters[m], k) THEN GotParameter(DictGet(_parameters[m], k))
    ELSE IF DictHas(_modules[m], k) THEN GotModule(DictGet(_modules[m], k))
    ELSE GotNone

\* C3 as stated: for every key the lookup gives the registered Parameter, else
\* the registered child, else None, also for a key assigned an ordinary value
\* or naming a method or a field
C3_LookupFromMappingsOnly ==
    \A m \in Mods, k \in LookupKeys : GetAttr(State, m, k) = Registered(m, k)

\* C3 as amended: for a key that is neither an ordinary instance field of the
\* Module (training, or a key assigned an ordinary value) nor a name its class
\* defines, the lookup gives the registered Parameter, else the registered
\* child, else None; for an ordinary field it gives the field's value and for
\* a class-defined name the method, whatever is registered under the key
C3_LookupFallsBackToMappings ==
    \A m \in Mods, k \in LookupKeys :
        LET got == GetAttr(State, m, k)
        IN  /\ DictHas(fields[m], k) => got = GotField(DictGet(fields[m], k))
            /\ (~DictHas(fields[m], k) /\ k \in ClassAttrs(m)) => got = GotMethod(m)
            /\ (~DictHas(fields[m], k) /\ k \notin ClassAttrs(m)) =>
                   /\ DictHas(_parameters[m], k) =>
                          got.kind = "Parameter" /\ got.id = DictGet(_parameters[m], k)
                   /\ (~DictHas(_parameters[m], k) /\ DictHas(_modules[m], k)) =>
                          got.kind = "Module" /\ got.id = DictGet(_modules[m], k)
                   /\ (~DictHas(_parameters[m], k) /\ ~DictHas(_modules[m], k)) =>
                          got.kind = "None"

\* a key registered both as a parameter and as a child, no field and no class
\* name: the lookup gives the Parameter
C3_Witness ==
    \E m \in Mods, k \in LookupKeys :
        /\ ~DictHas(fields[m], k) /\ k \notin ClassAttrs(m)
        /\ DictHas(_parameters[m], k) /\ DictHas(_modules[m], k)
        /\ GetAttr(State, m, k) = GotParameter(DictGet(_parameters[m], k))

CallArgs == {"x"}

\* C6 as stated: a Module whose type supplies no forward ends a call in an error
\* in every reachable state, whatever is registered under any key; a Module
\* whose type supplies forward returns forward(args)
C6_BareModuleCallFails ==
    \A m \in Mods, args \in CallArgs :
        IF m \in ForwardTypes
        THEN __call__(State, m, args) = CallReturned(m, args)
        ELSE __call__(State, m, args).status = "raise"

(***************************************************************************)
(* SpecParam: Parameters constructed and updated, over plain values and    *)
(* values exposing requires_grad_; the names include the empty string.     *)
(***************************************************************************)
ParamNames == {K_a, K_empty}

NextParam ==
    \/ NewParameter(ParamNames, Vals)
    \/ UpdateParameter(Vals)

SpecParam == Init /\ [][NextParam]_vars

\* C7 as stated: after the construction of a Parameter and after every update,
\* a value exposing requires_grad_ has had it called with True and, if the
\* Parameter's name is set (any string), carries that name; update leaves the
\* Parameter's name as it was
C7_GradAndNamePropagated ==
    last.op \in {"Parameter", "update"} =>
        LET p == heap[last.id]
        IN  /\ hasattr_requires_grad_(p.value) =>
                  /\ vobj[p.value].requires_grad
                  /\ p.name # None => vobj[p.value].name = p.name
            /\ last.op = "update" => p.name = last.was

(***************************************************************************)
(* SpecOps: the primitives applied to inputs from bounded sets.            *)
(***************************************************************************)
Scalars == {Norm(n, d) : n \in (-MaxNum)..MaxNum, d \in {1, 2}}

RECURSIVE SeqsUpTo(_, _)
SeqsUpTo(S, n) ==
    IF n = 0 THEN {<<>>}
    ELSE LET shorter == SeqsUpTo(S, n - 1)
         IN  shorter \cup {Append(q, e) : q \in shorter, e \in S}

ListsA == SeqsUpTo({1, 2, 3}, MaxLen)
ListsB == SeqsUpTo({10, 20}, MaxLen)
Funcs == {"add", "mul", "max"}

Idle == opcall = NoCall
TreeUnchanged == UNCHANGED <<_parameters, _modules, fields, heap, vobj, last>>

Inv ==
    \E x \in Scalars :
        /\ Idle
        /\ opcall' = [NoCall EXCEPT !.fn = "inv", !.x = x]
        /\ opret' = inv(x)
        /\ TreeUnchanged

LogBack ==
    \E x \in Scalars, g \in Scalars :
        /\ Idle
        /\ opcall' = [NoCall EXCEPT !.fn = "log_back", !.x = x, !.g = g]
        /\ opret' = log_back(x, g)
        /\ TreeUnchanged

InvBack ==
    \E x \in Scalars, g \in Scalars :
        /\ Idle
        /\ opcall' = [NoCall EXCEPT !.fn = "inv_back", !.x = x, !.g = g]
        /\ opret' = inv_back(x, g)
        /\ TreeUnchanged

ReluBack ==
    \E x \in Scalars, g \in Scalars :
        /\ Idle
        /\ opcall' = [NoCall EXCEPT !.fn = "relu_back", !.x = x, !.g = g]
        /\ opret' = relu_back(x, g)
        /\ TreeUnchanged

\* zipWith(func)(a, b): the comprehension reads the lists and writes neither
ZipWith ==
    \E func \in Funcs, a \in ListsA, b \in ListsB :
        /\ Idle
        /\ opcall' = [NoCall EXCEPT !.fn = "zipWith", !.func = func,
                                    !.a = a, !.b = b, !.l1 = a, !.l2 = b]
        /\ opret' = ReturnedList(zipWith(func, a, b))
        /\ TreeUnchanged

AddLists ==
    \E a \in ListsA, b \in ListsB :
        /\ Idle
        /\ opcall' = [NoCall EXCEPT !.fn = "addLists", !.func = "add",
                                    !.a = a, !.b = b, !.l1 = a, !.l2 = b]
        /\ opret' = ReturnedList(addLists(a, b))
        /\ TreeUnchanged

\* the caller has taken the outcome; the next call may follow
Taken ==
    /\ ~Idle
    /\ opcall' = NoCall
    /\ opret' = Returned(Num(0))
    /\ TreeUnchanged

NextOps == Inv \/ LogBack \/ InvBack \/ ReluBack \/ ZipWith \/ AddLists \/ Taken

SpecOps == Init /\ [][NextOps]_vars

RNeg(x) == <<-x[1], x[2]>>

\* C9: inv and inv_back raise the domain error (ValueError) exactly when x == 0,
\* log_back exactly when x <= 0; otherwise they return 1/x, g * (-1/x^2) and
\* g * (1/x); inv(2) = 0.5; relu_back never raises and returns g when x > 0 and
\* 0 otherwise
C9_DomainFailures ==
    LET x == opcall.x
        g == opcall.g
        raised == opret.status = "raise"
    IN  /\ raised => opret.list = <<"ValueError">>
        /\ opcall.fn = "inv" =>
             /\ raised <=> x = Num(0)
             /\ ~raised => RMul(opret.num, x) = Num(1)
             /\ x = Num(2) => opret = Returned(<<1, 2>>)
        /\ opcall.fn = "inv_back" =>
             /\ raised <=> x = Num(0)
             /\ ~raised => RMul(opret.num, RMul(x, x)) = RNeg(g)
        /\ opcall.fn = "log_back" =>
             /\ raised <=> (x[1] <= 0)
             /\ ~raised => RMul(opret.num, x) = g
        /\ opcall.fn = "relu_back" =>
             /\ ~raised
             /\ opret.num = IF x[1] > 0 THEN g ELSE Num(0)

\* log_back has raised on a negative input
C9_Witness ==
    /\ opcall.fn = "log_back"
    /\ opcall.x[1] < 0
    /\ opret = Raised("ValueError")

Min(i, j) == IF i <= j THEN i ELSE j

\* C10: zipWith(f)(a, b) returns a new sequence of length min(len(a), len(b))
\* whose i-th element is f(a[i], b[i]); a and b are as they were; addLists is
\* zipWith(add), and addLists([1,2,3], [10,20]) = [11,22]
C10_ZipWithShorter ==
    opcall.fn \in {"zipWith", "addLists"} =>
        LET a == opcall.a
            b == opcall.b
            out == opret.list
        IN  /\ opret.status = "return"
            /\ Len(out) = Min(Len(a), Len(b))
            /\ \A i \in 1..Len(out) : out[i] = Apply2(opcall.func, a[i], b[i])
            /\ opcall.l1 = a /\ opcall.l2 = b
            /\ opcall.fn = "addLists" =>
                 /\ opcall.func = "add"
                 /\ (a = <<1, 2, 3>> /\ b = <<10, 20>>) => out = <<11, 22>>

\* addLists([1,2,3], [10,20]) has returned [11,22]
C10_Witness ==
    /\ opcall.fn = "addLists"
    /\ opcall.a = <<1, 2, 3>> /\ opcall.b = <<10, 20>>
    /\ opret.list = <<11, 22>>

====
